---- MODULE Spec2Model ----
(***************************************************************************)
(* Model of qutebrowser/browser/webengine/webview.py: the WebEngineView    *)
(* and WebEnginePage callbacks that Qt invokes on the event-dispatch       *)
(* thread.  Every callback runs to completion, so each is one action.      *)
(* The observable effects of the most recent callback (signals emitted,    *)
(* collaborators called, log sinks used, the return) are kept in order in  *)
(* `trace`, its arguments in `call` and its result in `ret`.               *)
(***************************************************************************)
EXTENDS Naturals, Sequences, FiniteSets

VARIABLES
    is_shutting_down,   \* WebEnginePage._is_shutting_down
    html,               \* page content: LoadedContent or the error page set by setHtml
    tabs,               \* number of tabs opened through tabbed_browser.tabopen
    call,               \* the most recent callback and its arguments
    ret,                \* what it returned ("True", "False", "None", "view", "ValueError")
    trace               \* its observable effects, in program order

vars == <<is_shutting_down, html, tabs, call, ret, trace>>

(* ------------------------------ bounds --------------------------------- *)
MaxHosts == 2
MaxTabs == 2

(* ------------------------------ inputs --------------------------------- *)
Schemes == {"http", "https"}

\* A default-constructed QUrl(): empty, hence not valid.
EmptyUrl == [scheme |-> "", rest |-> 0]

Urls == [scheme : Schemes, rest : 1..MaxHosts] \cup {EmptyUrl}

WinTypes == {"WebBrowserWindow", "WebBrowserTab", "WebDialog",
             "WebBrowserBackgroundTab", "InvalidWinType"}

NavigationTypes == {"NavigationTypeLinkClicked", "NavigationTypeTyped",
                    "NavigationTypeFormSubmitted", "NavigationTypeBackForward",
                    "NavigationTypeReload", "NavigationTypeOther"}

ClickTargets == {"normal", "tab", "tab_bg", "window"}

MessageLevels == {"InfoMessageLevel", "WarningMessageLevel", "ErrorMessageLevel"}

Settings == {"none", "debug", "info"}

QtVersions == {<<5, 6, 1>>, <<5, 6, 2>>, <<5, 7, 0>>, <<5, 7, 1>>}

Builds == [qt_version : QtVersions, env_patched : {"", "1"},
           has_background_tab : BOOLEAN]

(* ------------------------------ helpers -------------------------------- *)
BoolStr(b) == IF b THEN "True" ELSE "False"

Has(t, e) == \E i \in 1..Len(t) : t[i] = e

Count(t, e) == Cardinality({i \in 1..Len(t) : t[i] = e})

\* qtutils.version_check(v): the running Qt version is at least v.
version_check(qt_version, v) ==
    \/ qt_version[1] > v[1]
    \/ qt_version[1] = v[1] /\ qt_version[2] > v[2]
    \/ qt_version[1] = v[1] /\ qt_version[2] = v[2] /\ qt_version[3] >= v[3]

\* WORKAROUND gate for QTBUG-54419.
qtbug_54419_fixed(qt_version, env_patched) ==
    \/ version_check(qt_version, <<5, 6, 2>>) /\ ~version_check(qt_version, <<5, 7, 0>>)
    \/ version_check(qt_version, <<5, 7, 1>>)
    \/ env_patched # ""

\* QUrl.isValid(): non-empty.
isValid(url) == url # EmptyUrl

\* QUrl.matches(other, QUrl.RemoveScheme): equal with the scheme disregarded.
matches(url, other) == url.rest = other.rest

(* ----------------------- WebEngineView.createWindow --------------------- *)
\* The if/elif chain over wintype: which branch the request takes.
WinBranch_rejecting(wintype, has_background_tab) ==
    IF wintype \in {"WebBrowserWindow", "WebDialog"} THEN "invalid"
    ELSE IF wintype = "WebBrowserTab" THEN "tab"
    ELSE IF has_background_tab /\ wintype = "WebBrowserBackgroundTab" THEN "background"
    ELSE "invalid"

WinBranch_lenient(wintype, has_background_tab) ==
    IF wintype \in {"WebBrowserWindow", "WebDialog"} THEN "unsupported"
    ELSE IF wintype = "WebBrowserTab" THEN "tab"
    ELSE IF has_background_tab /\ wintype = "WebBrowserBackgroundTab" THEN "background"
    ELSE "tab"

WinBranch(wintype, has_background_tab) ==
    IF wintype \in {"WebBrowserWindow", "WebDialog"} THEN "unsupported"
    ELSE IF wintype = "WebBrowserTab" THEN "tab"
    ELSE IF has_background_tab /\ wintype = "WebBrowserBackgroundTab" THEN "background"
    ELSE "invalid"

\* build: the environment the request runs in: qt_version is the Qt version
\* qtutils.version_check compares with, env_patched the value of
\* os.environ.get('QUTE_QTBUG54419_PATCHED', ''), has_background_tab whether
\* QWebEnginePage has the attribute WebBrowserBackgroundTab.
createWindow(wintype, build) ==
    LET branch == WinBranch(wintype, build.has_background_tab)
        fixed == qtbug_54419_fixed(build.qt_version, build.env_patched)
    IN
    /\ call' = [op |-> "createWindow", wintype |-> wintype, build |-> build]
    /\ IF ~fixed THEN
           /\ trace' = <<"log.webview.debug", "log.webview.debug:ignoring", "return">>
           /\ ret' = "None"
           /\ tabs' = tabs
       ELSE IF branch = "invalid" THEN
           /\ trace' = <<"log.webview.debug", "raise:ValueError">>
           /\ ret' = "ValueError"
           /\ tabs' = tabs
       ELSE
           /\ tabs < MaxTabs
           /\ trace' = <<"log.webview.debug">>
                        \o (IF branch = "unsupported"
                            THEN <<"log.webview.warning">> ELSE <<>>)
                        \o <<IF branch = "background"
                               THEN "tabopen(background=True)"
                               ELSE "tabopen(background=False)", "return">>
           /\ tabs' = tabs + 1
           /\ ret' = "view"
    /\ UNCHANGED <<is_shutting_down, html>>

(* --------------------------- WebEnginePage ------------------------------ *)
\* What the page shows: whatever the engine loaded, or the error page that
\* jinja.render('error.html', ..., url=url_string, ...) produced for a URL.
LoadedContent == [kind |-> "content", url |-> EmptyUrl]

ErrorPage(url) == [kind |-> "error.html", url |-> url]

shutdown_toggling ==
    /\ is_shutting_down' = ~is_shutting_down
    /\ call' = [op |-> "shutdown"]
    /\ trace' = <<"emit:shutting_down", "return">>
    /\ ret' = "None"
    /\ UNCHANGED <<html, tabs>>

shutdown ==
    /\ is_shutting_down' = TRUE
    /\ call' = [op |-> "shutdown"]
    /\ trace' = <<"emit:shutting_down", "return">>
    /\ ret' = "None"
    /\ UNCHANGED <<html, tabs>>

\* error.is_overridable(): whether the policy collaborator is asked.
AsksPolicy_always(overridable) == TRUE

AsksPolicy(overridable) == overridable

\* The heuristic deciding whether the rendered error page is applied.
ShowsErrorPage_unconditional(ignore, url, requested) == ~ignore

ShowsErrorPage(ignore, url, requested) == ~ignore /\ matches(url, requested)

\* error: [url, overridable]; requested: self.requestedUrl();
\* answer: what shared.ignore_certificate_errors returns if it is asked.
certificateError(error, requested, answer) ==
    LET ignore == IF AsksPolicy(error.overridable) THEN answer ELSE FALSE
        show == ShowsErrorPage(ignore, error.url, requested)
    IN
    /\ call' = [op |-> "certificateError", url |-> error.url,
                overridable |-> error.overridable, requested |-> requested]
    /\ trace' = <<"emit:certificate_error", "log.webview.debug", "jinja.render">>
                 \o (IF AsksPolicy(error.overridable)
                     THEN <<"shared.ignore_certificate_errors">>
                     ELSE <<"log.webview.error">>)
                 \o <<"log.webview.debug">>
                 \o (IF show THEN <<"setHtml">> ELSE <<>>)
                 \o <<"return">>
    /\ html' = IF show THEN ErrorPage(error.url) ELSE html
    /\ ret' = BoolStr(ignore)
    /\ UNCHANGED <<is_shutting_down, tabs>>

\* The guard at the top of javaScriptConfirm / javaScriptAlert.
ConfirmShortCircuits_never == FALSE

ConfirmShortCircuits == is_shutting_down

AlertShortCircuits == is_shutting_down

\* policy: "True"/"False" returned by shared.javascript_confirm, or "CallSuper"
\* raised by it; engine: what QWebEnginePage.javaScriptConfirm then returns.
javaScriptConfirm(url, policy, engine) ==
    /\ call' = [op |-> "javaScriptConfirm", url |-> url]
    /\ IF ConfirmShortCircuits THEN
           /\ trace' = <<"return">>
           /\ ret' = "False"
       ELSE IF policy = "CallSuper" THEN
           /\ trace' = <<"shared.javascript_confirm", "super.javaScriptConfirm", "return">>
           /\ ret' = BoolStr(engine)
       ELSE
           /\ trace' = <<"shared.javascript_confirm", "return">>
           /\ ret' = policy
    /\ UNCHANGED <<is_shutting_down, html, tabs>>

javaScriptAlert(url, policy) ==
    /\ call' = [op |-> "javaScriptAlert", url |-> url]
    /\ IF AlertShortCircuits THEN
           trace' = <<"return">>
       ELSE IF policy = "CallSuper" THEN
           trace' = <<"shared.javascript_alert", "super.javaScriptAlert", "return">>
       ELSE
           trace' = <<"shared.javascript_alert", "return">>
    /\ ret' = "None"
    /\ UNCHANGED <<is_shutting_down, html, tabs>>

\* level_to_logger: the sink of each message level.
level_to_logger_swapped(level) ==
    CASE level = "InfoMessageLevel" -> "log.js.info"
      [] level = "WarningMessageLevel" -> "log.js.error"
      [] level = "ErrorMessageLevel" -> "log.js.warning"

level_to_logger(level) ==
    CASE level = "InfoMessageLevel" -> "log.js.info"
      [] level = "WarningMessageLevel" -> "log.js.warning"
      [] level = "ErrorMessageLevel" -> "log.js.error"

\* setting: config.get('general', 'log-javascript-console').
javaScriptConsoleMessage(level, setting) ==
    /\ call' = [op |-> "javaScriptConsoleMessage", level |-> level, setting |-> setting]
    /\ IF setting = "none" THEN
           trace' = <<"config.get", "return">>
       ELSE
           trace' = <<"config.get", level_to_logger(level), "return">>
    /\ ret' = "None"
    /\ UNCHANGED <<is_shutting_down, html, tabs>>

\* typ != QWebEnginePage.NavigationTypeLinkClicked returns True at once.
IsLinkClick_orForm(typ) ==
    typ \in {"NavigationTypeLinkClicked", "NavigationTypeFormSubmitted"}

IsLinkClick(typ) == typ = "NavigationTypeLinkClicked"

\* The decision returned for a link click.
AcceptsLinkClick_anyUrl(url, target) == target = "normal"

AcceptsLinkClick(url, target) == isValid(url) /\ target = "normal"

\* Whether link_clicked is emitted by the request.
EmitsLinkClicked_onAccept(url, typ, target) ==
    IsLinkClick(typ) /\ AcceptsLinkClick(url, target)

EmitsLinkClicked(url, typ, target) == IsLinkClick(typ)

\* target: self._tabdata.combined_target().
acceptNavigationRequest(url, typ, is_main_frame, target) ==
    /\ call' = [op |-> "acceptNavigationRequest", url |-> url, typ |-> typ,
                is_main_frame |-> is_main_frame, target |-> target]
    /\ trace' = <<"tabdata.combined_target", "log.webview.debug">>
                 \o (IF EmitsLinkClicked(url, typ, target)
                     THEN <<"emit:link_clicked">> ELSE <<>>)
                 \o <<"return">>
    /\ ret' = IF ~IsLinkClick(typ) THEN "True"
              ELSE BoolStr(AcceptsLinkClick(url, target))
    /\ UNCHANGED <<is_shutting_down, html, tabs>>

(* --------------------------- specification ------------------------------ *)
\* WebEngineView.__init__ / WebEnginePage.__init__: a fresh view and page.
Init ==
    /\ is_shutting_down = FALSE
    /\ html = LoadedContent
    /\ tabs = 0
    /\ call = [op |-> "__init__"]
    /\ ret = "None"
    /\ trace = <<>>

Next ==
    \/ \E wintype \in WinTypes, build \in Builds : createWindow(wintype, build)
    \/ shutdown
    \/ \E url \in Urls, overridable \in BOOLEAN, requested \in Urls, answer \in BOOLEAN :
          certificateError([url |-> url, overridable |-> overridable], requested, answer)
    \/ \E url \in Urls, policy \in {"True", "False", "CallSuper"}, engine \in BOOLEAN :
          javaScriptConfirm(url, policy, engine)
    \/ \E url \in Urls, policy \in {"None", "CallSuper"} : javaScriptAlert(url, policy)
    \/ \E level \in MessageLevels, setting \in Settings :
          javaScriptConsoleMessage(level, setting)
    \/ \E url \in Urls, typ \in NavigationTypes, is_main_frame \in BOOLEAN,
          target \in ClickTargets :
          acceptNavigationRequest(url, typ, is_main_frame, target)

Spec == Init /\ [][Next]_vars

(* ------------------------------ properties ------------------------------ *)
Tabopens(t) == Count(t, "tabopen(background=True)") + Count(t, "tabopen(background=False)")

JsSinks(t) == Count(t, "log.js.info") + Count(t, "log.js.warning") + Count(t, "log.js.error")

UnsupportedKinds == {"WebBrowserWindow", "WebDialog"}

GateActive == qtbug_54419_fixed(call.build.qt_version, call.build.env_patched)

\* C1: a certificate error that is not overridable is never ignored (the
\* callback returns False) and shared.ignore_certificate_errors is not called
\* for it, whatever the failing URL, the requested URL and the flag are.
C1_NonOverridableNeverIgnored ==
    (call.op = "certificateError" /\ ~call.overridable)
        => /\ ret = "False"
           /\ ~Has(trace, "shared.ignore_certificate_errors")

C1_Witness ==
    /\ call.op = "certificateError"
    /\ ~call.overridable
    /\ is_shutting_down
    /\ call.url.rest # call.requested.rest
    /\ Has(trace, "log.webview.error")

\* C2: a javaScriptConfirm or javaScriptAlert call made while the page is
\* shutting down does nothing but return its default (False / None): neither
\* the policy collaborator nor the engine's own dialog is invoked.
C2_DialogsAfterShutdownDefault ==
    (call.op \in {"javaScriptConfirm", "javaScriptAlert"} /\ is_shutting_down)
        => /\ trace = <<"return">>
           /\ ret = (IF call.op = "javaScriptConfirm" THEN "False" ELSE "None")

C2_Witness ==
    /\ call.op = "javaScriptConfirm"
    /\ is_shutting_down
    /\ ret = "False"
    /\ ~Has(trace, "shared.javascript_confirm")

\* C3: the shutting-down flag starts false, never goes from true back to
\* false, and no callback other than shutdown changes it.
C3_FlagMonotonic ==
    /\ ~is_shutting_down
    /\ [][/\ is_shutting_down => is_shutting_down'
          /\ (is_shutting_down' # is_shutting_down) => call'.op = "shutdown"]_vars

C3_Witness ==
    /\ is_shutting_down
    /\ call.op = "certificateError"

\* C4: a link-click navigation request is accepted only if the URL is valid
\* and the combined click target is normal.
C4_LinkClickAcceptedOnlyIfValidAndNormal ==
    (/\ call.op = "acceptNavigationRequest"
     /\ call.typ = "NavigationTypeLinkClicked"
     /\ ret = "True")
        => (call.url # EmptyUrl /\ call.target = "normal")

C4_Witness ==
    /\ call.op = "acceptNavigationRequest"
    /\ call.typ = "NavigationTypeLinkClicked"
    /\ call.url = EmptyUrl
    /\ call.target = "normal"
    /\ ret = "False"

\* C5: a navigation request of any type other than link-click is accepted,
\* whatever the URL, the click target, the main-frame flag and the
\* shutting-down flag are.
C5_OtherNavigationAccepted ==
    (call.op = "acceptNavigationRequest" /\ call.typ # "NavigationTypeLinkClicked")
        => ret = "True"

C5_Witness ==
    /\ call.op = "acceptNavigationRequest"
    /\ call.typ = "NavigationTypeFormSubmitted"
    /\ call.url = EmptyUrl
    /\ call.target = "window"
    /\ ~call.is_main_frame
    /\ is_shutting_down
    /\ ret = "True"

\* C6: on a certificate error setHtml is called only if the error was not
\* ignored and the failing URL equals the requested URL up to the scheme;
\* if the error is ignored or the URLs differ beyond the scheme, the page
\* content stays as it was.
C6_ErrorPageOnlyIfNotIgnoredAndMatching ==
    [][call'.op = "certificateError"
        => /\ Has(trace', "setHtml")
                => (ret' = "False" /\ call'.url.rest = call'.requested.rest)
           /\ (ret' = "True" \/ call'.url.rest # call'.requested.rest)
                => (html' = html /\ ~Has(trace', "setHtml"))]_vars

C6_Witness ==
    /\ call.op = "certificateError"
    /\ ret = "False"
    /\ call.url.scheme # call.requested.scheme
    /\ call.url.rest = call.requested.rest
    /\ Has(trace, "setHtml")
    /\ html = ErrorPage(call.url)

C8_InvalidKindAlwaysRaises ==
    (call.op = "createWindow" /\ call.wintype = "InvalidWinType")
        => (ret = "ValueError" /\ Tabopens(trace) = 0)

\* C8 (amended): a request of an invalid kind opens no tab; it ends in
\* ValueError when the QTBUG-54419 gate is active, and returns None without
\* an error when the gate is inactive.
C8_InvalidKindRaisesWhenGateActive ==
    (call.op = "createWindow" /\ call.wintype = "InvalidWinType")
        => /\ Tabopens(trace) = 0
           /\ IF GateActive
              THEN ret = "ValueError" /\ Has(trace, "raise:ValueError")
              ELSE ret = "None" /\ ~Has(trace, "raise:ValueError")

C8_Witness ==
    /\ call.op = "createWindow"
    /\ call.wintype = "InvalidWinType"
    /\ GateActive
    /\ ret = "ValueError"

\* C9: no console message is logged when 'log-javascript-console' is 'none';
\* under any other setting the message goes once to the sink of its own
\* level (info, warning, error) and to no other sink.
C9_ConsoleMessageRouting ==
    call.op = "javaScriptConsoleMessage"
        => IF call.setting = "none"
           THEN JsSinks(trace) = 0
           ELSE /\ JsSinks(trace) = 1
                /\ call.level = "InfoMessageLevel" => Has(trace, "log.js.info")
                /\ call.level = "WarningMessageLevel" => Has(trace, "log.js.warning")
                /\ call.level = "ErrorMessageLevel" => Has(trace, "log.js.error")

C9_Witness ==
    /\ call.op = "javaScriptConsoleMessage"
    /\ call.setting = "debug"
    /\ call.level = "WarningMessageLevel"
    /\ Has(trace, "log.js.warning")

\* C10: link_clicked is emitted exactly once by every link-click navigation
\* request, before the decision is returned and also when the request is
\* rejected; no other callback and no other navigation type emits it.
C10_LinkClickedEmittedOncePerLinkClick ==
    IF call.op = "acceptNavigationRequest" /\ call.typ = "NavigationTypeLinkClicked"
    THEN /\ Count(trace, "emit:link_clicked") = 1
         /\ \E i, j \in 1..Len(trace) :
                /\ trace[i] = "emit:link_clicked"
                /\ trace[j] = "return"
                /\ i < j
    ELSE Count(trace, "emit:link_clicked") = 0

C10_Witness ==
    /\ call.op = "acceptNavigationRequest"
    /\ call.typ = "NavigationTypeLinkClicked"
    /\ call.target = "tab"
    /\ ret = "False"
    /\ Has(trace, "emit:link_clicked")
====
